---- MODULE Spec2Model ----
(***************************************************************************)
(* Philologica: the OCR orchestration core (backend/ocr_engine.py) and the *)
(* /api/ocr request handler (backend/app.py).                              *)
(*                                                                         *)
(* Text is a sequence of one-character strings.  A confidence is a         *)
(* rational number [num, den] (den > 0): the Printed backend reports word  *)
(* confidences as integers on the 0-100 scale, the Handwritten backend     *)
(* reports per-unit confidences in 0..1, held here in hundredths.          *)
(***************************************************************************)
EXTENDS Integers, Sequences, FiniteSets, TLC

VARIABLES
    KRAKEN_AVAILABLE,     \* module flag set by the import of kraken
    TESSERACT_AVAILABLE,  \* module flag set by the import of pytesseract
    kraken_models,        \* keys of AncientOCREngine.kraken_models
    pc,                   \* position of the request in process_ocr / process_image
    request,              \* file.filename, engine and language of the request
    contents,             \* the bytes read from the upload
    image,                \* the preprocessed PIL image
    engine,               \* the local variable engine of process_image
    backend,              \* what the external recognition backend did in this call
    text,                 \* text returned by the adapter
    confidence,           \* confidence returned by the adapter
    response,             \* the HTTP response of process_ocr
    events                \* side effects performed for the request, in order

vars == <<KRAKEN_AVAILABLE, TESSERACT_AVAILABLE, kraken_models, pc, request,
          contents, image, engine, backend, text, confidence, response, events>>

----------------------------------------------------------------------------
(* Bounds *)

MaxWidth == 6
MaxHeight == 2
MaxWords == 4
MaxLines == 2
MaxUnits == 2
MaxPageWords == 1
MaxPageLines == 1

----------------------------------------------------------------------------
(* Strings *)

Whitespace == {" ", "\n", "\t"}

MsgKrakenNonInstallato ==
    <<"K", "r", "a", "k", "e", "n", " ", "n", "o", "n", " ", "i", "n", "s", "t", "a", "l", "l", "a", "t", "o">>

MsgModelloNonDisponibile ==
    <<"M", "o", "d", "e", "l", "l", "o", " ", "K", "r", "a", "k", "e", "n", " ", "n", "o", "n", " ", "d", "i", "s", "p", "o", "n", "i", "b", "i", "l", "e">>

MsgTesseractNonInstallato ==
    <<"T", "e", "s", "s", "e", "r", "a", "c", "t", " ", "n", "o", "n", " ", "i", "n", "s", "t", "a", "l", "l", "a", "t", "o">>

MsgErroreTesseract ==
    <<"E", "r", "r", "o", "r", "e", " ", "T", "e", "s", "s", "e", "r", "a", "c", "t", ":", " ">>

MsgFormatoNonSupportato ==
    <<"F", "o", "r", "m", "a", "t", "o", " ", "n", "o", "n", " ", "s", "u", "p", "p", "o", "r", "t", "a", "t", "o", ".", " ", "U", "s", "a", ":", " ">>

\* str.strip(): leading whitespace removed ...
RECURSIVE LStrip(_)
LStrip(s) ==
    IF s = <<>> THEN <<>>
    ELSE IF Head(s) \in Whitespace THEN LStrip(Tail(s))
    ELSE s

\* ... and trailing whitespace removed
RECURSIVE RStrip(_)
RStrip(s) ==
    IF s = <<>> THEN <<>>
    ELSE IF s[Len(s)] \in Whitespace THEN RStrip(SubSeq(s, 1, Len(s) - 1))
    ELSE s

Strip(s) == RStrip(LStrip(s))

\* sep.join(parts)
RECURSIVE Join(_, _)
Join(sep, parts) ==
    IF parts = <<>> THEN <<>>
    ELSE IF Len(parts) = 1 THEN parts[1]
    ELSE parts[1] \o sep \o Join(sep, Tail(parts))

\* sum(list)
RECURSIVE SumSeq(_)
SumSeq(s) == IF s = <<>> THEN 0 ELSE Head(s) + SumSeq(Tail(s))

\* sorted(keys)
RECURSIVE Sorted(_)
Sorted(S) ==
    IF S = {} THEN <<>>
    ELSE LET m == CHOOSE x \in S : \A y \in S : x <= y
         IN <<m>> \o Sorted(S \ {m})

\* list.extend over a list of lists
RECURSIVE Flatten(_)
Flatten(ss) == IF ss = <<>> THEN <<>> ELSE Head(ss) \o Flatten(Tail(ss))

\* all sequences over S of length at most n
SeqUpTo(S, n) == UNION {[1..k -> S] : k \in 0..n}

Rat(n, d) == [num |-> n, den |-> d]

----------------------------------------------------------------------------
(* Values meaning "not set yet" *)

NoRequest == [filename |-> <<>>, engine |-> "", language |-> ""]
NoContents == [decodable |-> FALSE, width |-> 0, height |-> 0]
NoImage == [width |-> 0, height |-> 0, mode |-> ""]
NoBackend == [called |-> "", raised |-> "none", msg |-> <<>>, lang |-> "",
              data |-> <<>>, predictions |-> <<>>]
NoResponse == [status |-> 0]
Zero == Rat(0, 1)

----------------------------------------------------------------------------
(* Inputs *)

Engines == {"auto", "kraken", "tesseract"}

Languages == {"lat", "cop"}

Filenames ==
    { <<"scan", ".", "jpg">>, <<"scan", ".", "JPG">>, <<"scan", ".", "pdf">>,
      <<"scan">>, <<".", "png">>, <<"scan", ".", "png", ".", "PDF">> }

Uploads ==
    {NoContents} \cup
    [decodable : {TRUE}, width : 1..MaxWidth, height : 1..MaxHeight]

\* message of an exception raised by a backend or by the upload
ExcMessage == <<"f", "a", "i", "l", "e", "d">>

\* rows of pytesseract.image_to_data: text, line_num, conf (0-100, -1 = none)
TessEntries ==
    { [text |-> <<"a">>, line_num |-> 1, conf |-> 90],
      [text |-> <<"b">>, line_num |-> 2, conf |-> 70],
      [text |-> <<"a">>, line_num |-> 1, conf |-> -1],
      [text |-> <<"b">>, line_num |-> 1, conf |-> 0],
      [text |-> <<" ">>, line_num |-> 1, conf |-> 95],
      [text |-> <<>>,    line_num |-> 0, conf |-> -1],
      [text |-> <<"a">>, line_num |-> 2, conf |-> 100] }

\* what pytesseract.image_to_data can do: raise, or return at most n rows
TessOutcomes(n) ==
    { [called |-> "tesseract", raised |-> "image_to_data", msg |-> ExcMessage,
       lang |-> "", data |-> <<>>, predictions |-> <<>>] } \cup
    { [called |-> "tesseract", raised |-> "none", msg |-> <<>>,
       lang |-> "", data |-> d, predictions |-> <<>>] : d \in SeqUpTo(TessEntries, n) }

\* per-unit confidences of one kraken record, in hundredths
UnitConfs == {0, 100}

\* records yielded by rpred.rpred: prediction, and possibly a confidence list
KrakenRecords ==
    [prediction : {<<"a">>, <<" ">>}, has_confidence : {TRUE},
     confidence : SeqUpTo(UnitConfs, MaxUnits)] \cup
    [prediction : {<<"a">>, <<" ">>}, has_confidence : {FALSE},
     confidence : {<<>>}]

\* what the kraken calls can do: one of them raises, or rpred yields at most
\* n records
KrakenOutcomes(n) ==
    { [called |-> "kraken", raised |-> r, msg |-> ExcMessage,
       lang |-> "", data |-> <<>>, predictions |-> <<>>] :
         r \in {"nlbin", "segment", "rpred"} } \cup
    { [called |-> "kraken", raised |-> "none", msg |-> <<>>,
       lang |-> "", data |-> <<>>, predictions |-> p] :
         p \in SeqUpTo(KrakenRecords, n) }

----------------------------------------------------------------------------
(* backend/ocr_engine.py *)

\* _load_kraken_models: nothing without kraken; lat_antiqua if it loads
load_kraken_models(available, loads) ==
    IF ~available THEN {}
    ELSE IF loads THEN {"lat_antiqua"}
    ELSE {}

KrakenFallbackPct == 85
TesseractFallbackPct == 70

\* the loop of process_with_kraken over the records of rpred
KrakenTextLines(predictions) ==
    [i \in 1..Len(predictions) |-> predictions[i].prediction]

KrakenConfidences(predictions) ==
    Flatten([i \in 1..Len(predictions) |->
               IF predictions[i].has_confidence
               THEN predictions[i].confidence ELSE <<>>])

\* variant: the fallback of the other adapter
KrakenAvgConfidence_PrintedFallback(confidences) ==
    IF confidences # <<>>
    THEN Rat(SumSeq(confidences), Len(confidences) * 100)
    ELSE Rat(TesseractFallbackPct, 100)

KrakenAvgConfidence(confidences) ==
    IF confidences # <<>>
    THEN Rat(SumSeq(confidences), Len(confidences) * 100)
    ELSE Rat(KrakenFallbackPct, 100)

\* process_with_kraken(image, language) against the backend behaviour out:
\* an exception of binarization, segmentation or recognition is not caught
process_with_kraken(img, language, out) ==
    IF ~KRAKEN_AVAILABLE
    THEN [raised |-> FALSE, msg |-> <<>>,
          text |-> MsgKrakenNonInstallato, confidence |-> Zero]
    ELSE IF out.raised \in {"nlbin", "segment"}
    THEN [raised |-> TRUE, msg |-> out.msg, text |-> <<>>, confidence |-> Zero]
    ELSE IF "lat_antiqua" \notin kraken_models
    THEN [raised |-> FALSE, msg |-> <<>>,
          text |-> MsgModelloNonDisponibile, confidence |-> Zero]
    ELSE IF out.raised = "rpred"
    THEN [raised |-> TRUE, msg |-> out.msg, text |-> <<>>, confidence |-> Zero]
    ELSE [raised |-> FALSE, msg |-> <<>>,
          text |-> Join(<<"\n">>, KrakenTextLines(out.predictions)),
          confidence |-> KrakenAvgConfidence(KrakenConfidences(out.predictions))]

lang_map == [lat |-> "lat", grc |-> "grc", heb |-> "heb", ara |-> "ara",
             default |-> "lat"]

\* lang_map.get(language, lang_map['default'])
tesseract_lang(language) ==
    IF language \in DOMAIN lang_map THEN lang_map[language]
    ELSE lang_map["default"]

\* the rows whose word is not blank (if word.strip())
RECURSIVE KeptRows(_)
KeptRows(data) ==
    IF data = <<>> THEN <<>>
    ELSE IF Strip(Head(data).text) # <<>>
    THEN <<Head(data)>> \o KeptRows(Tail(data))
    ELSE KeptRows(Tail(data))

\* text_lines[ln]: the kept words of line ln, in the order reported
RECURSIVE WordsOfLine(_, _)
WordsOfLine(rows, ln) ==
    IF rows = <<>> THEN <<>>
    ELSE IF Head(rows).line_num = ln
    THEN <<Head(rows).text>> \o WordsOfLine(Tail(rows), ln)
    ELSE WordsOfLine(Tail(rows), ln)

TessFullText(data) ==
    LET rows == KeptRows(data)
        keys == Sorted({rows[i].line_num : i \in 1..Len(rows)})
        sorted_lines == [k \in 1..Len(keys) |-> WordsOfLine(rows, keys[k])]
    IN Join(<<"\n">>, [k \in 1..Len(keys) |-> Join(<<" ">>, sorted_lines[k])])

\* confidences: the conf of every kept row
TessConfidences(data) ==
    LET rows == KeptRows(data) IN [i \in 1..Len(rows) |-> rows[i].conf]

\* variant: only negative sentinels are dropped
RECURSIVE ValidConfs_NonNegative(_)
ValidConfs_NonNegative(confidences) ==
    IF confidences = <<>> THEN <<>>
    ELSE IF Head(confidences) >= 0
    THEN <<Head(confidences)>> \o ValidConfs_NonNegative(Tail(confidences))
    ELSE ValidConfs_NonNegative(Tail(confidences))

\* valid_confs = [c for c in confidences if c > 0]
RECURSIVE ValidConfs(_)
ValidConfs(confidences) ==
    IF confidences = <<>> THEN <<>>
    ELSE IF Head(confidences) > 0
    THEN <<Head(confidences)>> \o ValidConfs(Tail(confidences))
    ELSE ValidConfs(Tail(confidences))

\* variant: the average stays on the 0-100 scale
TessAvgConfidence_Unscaled(valid_confs) ==
    IF valid_confs # <<>>
    THEN Rat(SumSeq(valid_confs), Len(valid_confs))
    ELSE Rat(TesseractFallbackPct, 100)

TessAvgConfidence(valid_confs) ==
    IF valid_confs # <<>>
    THEN Rat(SumSeq(valid_confs), Len(valid_confs) * 100)
    ELSE Rat(TesseractFallbackPct, 100)

\* process_with_tesseract(image, language) against the backend behaviour out:
\* every exception of the try block becomes an error text with confidence 0
process_with_tesseract(img, language, out) ==
    IF ~TESSERACT_AVAILABLE
    THEN [text |-> MsgTesseractNonInstallato, confidence |-> Zero]
    ELSE IF out.raised = "image_to_data"
    THEN [text |-> MsgErroreTesseract \o out.msg, confidence |-> Zero]
    ELSE [text |-> TessFullText(out.data),
          confidence |-> TessAvgConfidence(ValidConfs(TessConfidences(out.data)))]

AspectNum == 5
AspectDen == 2

\* variant: the threshold itself counts as elongated
AspectRatioExceeds_Inclusive(width, height) ==
    AspectDen * width >= AspectNum * height

\* aspect_ratio > 2.5 with aspect_ratio = width / height.  The quotient of
\* two image dimensions is a correctly rounded double and 2.5 is a double,
\* so the comparison agrees with the exact one for every height below 2^51.
AspectRatioExceeds(width, height) == AspectDen * width > AspectNum * height

\* the automatic selection of process_image
SelectedEngine(eng, width, height) ==
    IF eng = "auto"
    THEN IF AspectRatioExceeds(width, height) THEN "kraken" ELSE "tesseract"
    ELSE eng

\* variant: the availability of kraken is not looked at
UsesKraken_Unchecked(eng) == eng = "kraken"

\* the test that sends the image to the kraken adapter
UsesKraken(eng) == eng = "kraken" /\ KRAKEN_AVAILABLE

\* variant: the text is not stripped
Success_Unstripped(t) == Len(t) > 0

\* 'success': len(text.strip()) > 0
Success(t) == Len(Strip(t)) > 0

\* the dictionary returned by process_image
ResultRecord(t, c, img, used_engine, language) ==
    [text |-> t, confidence |-> c,
     metadata |-> [dimensions |-> <<img.width, img.height>>, mode |-> img.mode,
                   engine_used |-> used_engine, language_requested |-> language],
     success |-> Success(t)]

----------------------------------------------------------------------------
(* backend/app.py: process_ocr.  A filename is a sequence of tokens: names, *)
(* the dot "." and the path separator "/".                                 *)

\* variant: PDF is accepted
allowed_extensions_WithPdf ==
    { <<".", "jpg">>, <<".", "jpeg">>, <<".", "png">>, <<".", "tiff">>,
      <<".", "bmp">>, <<".", "pdf">> }

allowed_extensions ==
    { <<".", "jpg">>, <<".", "jpeg">>, <<".", "png">>, <<".", "tiff">>,
      <<".", "bmp">> }

\* str.rfind: the last position of tok in p, 0 if there is none
LastIndexOf(p, tok) ==
    LET I == {i \in 1..Len(p) : p[i] = tok}
    IN IF I = {} THEN 0 ELSE CHOOSE i \in I : \A j \in I : j <= i

\* os.path.splitext(p)[1]: from the last dot of the last path component,
\* unless only dots precede it in that component
splitext(p) ==
    LET sep == LastIndexOf(p, "/")
        dot == LastIndexOf(p, ".")
    IN IF dot > sep /\ \E i \in (sep + 1)..(dot - 1) : p[i] # "."
       THEN SubSeq(p, dot, Len(p))
       ELSE <<>>

\* str.lower() on the tokens of the model
lower(p) ==
    [i \in 1..Len(p) |->
        CASE p[i] = "JPG" -> "jpg"
          [] p[i] = "PDF" -> "pdf"
          [] OTHER -> p[i]]

file_ext(filename) == lower(splitext(filename))

ExtensionAllowed(filename) == file_ext(filename) \in allowed_extensions

\* a request arrives at POST /api/ocr
Request(fn, eng, lang) ==
    /\ pc = "idle"
    /\ request' = [filename |-> fn, engine |-> eng, language |-> lang]
    /\ pc' = "check"
    /\ UNCHANGED <<KRAKEN_AVAILABLE, TESSERACT_AVAILABLE, kraken_models,
                   contents, image, engine, backend, text, confidence,
                   response, events>>

\* the extension check: HTTPException(400) outside the try block
CheckExtension ==
    /\ pc = "check"
    /\ IF ~ExtensionAllowed(request.filename)
       THEN /\ response' = [status |-> 400, detail |-> MsgFormatoNonSupportato]
            /\ pc' = "done"
       ELSE /\ response' = response
            /\ pc' = "read"
    /\ UNCHANGED <<KRAKEN_AVAILABLE, TESSERACT_AVAILABLE, kraken_models,
                   request, contents, image, engine, backend, text,
                   confidence, events>>

\* contents = await file.read(); an exception becomes HTTPException(500)
ReadFile ==
    /\ pc = "read"
    /\ events' = Append(events, "read")
    /\ \/ /\ response' = [status |-> 500, detail |-> ExcMessage]
          /\ pc' = "done"
          /\ contents' = contents
       \/ /\ \E c \in Uploads : contents' = c
          /\ pc' = "preprocess"
          /\ response' = response
    /\ UNCHANGED <<KRAKEN_AVAILABLE, TESSERACT_AVAILABLE, kraken_models,
                   request, image, engine, backend, text, confidence>>

\* _preprocess_image: Image.open raises on bytes that are no image; the
\* result is always in mode 'L' and keeps the size
preprocess_image(c) == [width |-> c.width, height |-> c.height, mode |-> "L"]

\* process_image is entered: the image is decoded and preprocessed
PreprocessImage ==
    /\ pc = "preprocess"
    /\ events' = events \o <<"process_image", "decode">>
    /\ IF ~contents.decodable
       THEN /\ response' = [status |-> 500, detail |-> ExcMessage]
            /\ pc' = "done"
            /\ UNCHANGED <<image, engine>>
       ELSE /\ image' = preprocess_image(contents)
            /\ engine' = request.engine
            /\ pc' = "select"
            /\ response' = response
    /\ UNCHANGED <<KRAKEN_AVAILABLE, TESSERACT_AVAILABLE, kraken_models,
                   request, contents, backend, text, confidence>>

\* if engine == 'auto': choose by the aspect ratio
SelectEngine ==
    /\ pc = "select"
    /\ engine' = SelectedEngine(engine, image.width, image.height)
    /\ pc' = "recognize"
    /\ UNCHANGED <<KRAKEN_AVAILABLE, TESSERACT_AVAILABLE, kraken_models,
                   request, contents, image, backend, text, confidence,
                   response, events>>

\* the backend behaviours the kraken adapter can meet: rpred is only called
\* when the model is loaded
KrakenCalls(n) ==
    IF ~KRAKEN_AVAILABLE THEN {NoBackend}
    ELSE IF "lat_antiqua" \in kraken_models THEN KrakenOutcomes(n)
    ELSE {o \in KrakenOutcomes(n) : o.raised # "rpred" /\ o.predictions = <<>>}

\* the backend behaviours the tesseract adapter can meet
TesseractCalls(n, language) ==
    IF ~TESSERACT_AVAILABLE THEN {NoBackend}
    ELSE {[o EXCEPT !.lang = tesseract_lang(language)] : o \in TessOutcomes(n)}

\* JSONResponse(content=result) with the filename merged in
OkResponse(t, c, used_engine) ==
    [status |-> 200,
     content |-> ResultRecord(t, c, image, used_engine, request.language),
     filename |-> request.filename]

\* the kraken branch of process_image up to the response of process_ocr
RecognizeKraken ==
    /\ pc = "recognize"
    /\ UsesKraken(engine)
    /\ \E out \in KrakenCalls(MaxPageLines) :
         LET r == process_with_kraken(image, request.language, out)
         IN /\ backend' = out
            /\ IF r.raised
               THEN /\ response' = [status |-> 500, detail |-> r.msg]
                    /\ UNCHANGED <<text, confidence>>
               ELSE /\ text' = r.text
                    /\ confidence' = r.confidence
                    /\ response' = OkResponse(r.text, r.confidence, "kraken")
    /\ pc' = "done"
    /\ events' = Append(events, "recognize")
    /\ UNCHANGED <<KRAKEN_AVAILABLE, TESSERACT_AVAILABLE, kraken_models,
                   request, contents, image, engine>>

\* the tesseract branch of process_image up to the response of process_ocr
RecognizeTesseract ==
    /\ pc = "recognize"
    /\ ~UsesKraken(engine)
    /\ \E out \in TesseractCalls(MaxPageWords, request.language) :
         LET r == process_with_tesseract(image, request.language, out)
         IN /\ backend' = out
            /\ text' = r.text
            /\ confidence' = r.confidence
            /\ response' = OkResponse(r.text, r.confidence, "tesseract")
    /\ pc' = "done"
    /\ events' = Append(events, "recognize")
    /\ UNCHANGED <<KRAKEN_AVAILABLE, TESSERACT_AVAILABLE, kraken_models,
                   request, contents, image, engine>>

\* the module is imported and ocr_engine = AncientOCREngine() is built
Init ==
    /\ KRAKEN_AVAILABLE \in BOOLEAN
    /\ TESSERACT_AVAILABLE \in BOOLEAN
    /\ \E loads \in BOOLEAN :
         kraken_models = load_kraken_models(KRAKEN_AVAILABLE, loads)
    /\ pc = "idle"
    /\ request = NoRequest
    /\ contents = NoContents
    /\ image = NoImage
    /\ engine = ""
    /\ backend = NoBackend
    /\ text = <<>>
    /\ confidence = Zero
    /\ response = NoResponse
    /\ events = <<>>

Next ==
    \/ \E fn \in Filenames, eng \in Engines, lang \in Languages :
         Request(fn, eng, lang)
    \/ CheckExtension
    \/ ReadFile
    \/ PreprocessImage
    \/ SelectEngine
    \/ RecognizeKraken
    \/ RecognizeTesseract

Spec == Init /\ [][Next]_vars

----------------------------------------------------------------------------
(* The two adapters called on their own *)

TestImage == [width |-> 1, height |-> 1, mode |-> "L"]

InitTesseract ==
    /\ KRAKEN_AVAILABLE = FALSE
    /\ TESSERACT_AVAILABLE \in BOOLEAN
    /\ kraken_models = {}
    /\ pc = "call_tesseract"
    /\ \E lang \in Languages :
         /\ request = [filename |-> <<>>, engine |-> "tesseract", language |-> lang]
         /\ backend \in TesseractCalls(MaxWords, lang)
    /\ contents = NoContents
    /\ image = TestImage
    /\ engine = "tesseract"
    /\ text = <<>>
    /\ confidence = Zero
    /\ response = NoResponse
    /\ events = <<>>

\* text, confidence = self.process_with_tesseract(image, language)
CallTesseract ==
    /\ pc = "call_tesseract"
    /\ LET r == process_with_tesseract(image, request.language, backend)
       IN /\ text' = r.text
          /\ confidence' = r.confidence
    /\ pc' = "returned"
    /\ UNCHANGED <<KRAKEN_AVAILABLE, TESSERACT_AVAILABLE, kraken_models,
                   request, contents, image, engine, backend, response, events>>

NextTesseract == CallTesseract

SpecTesseract == InitTesseract /\ [][NextTesseract]_vars

InitKraken ==
    /\ KRAKEN_AVAILABLE \in BOOLEAN
    /\ TESSERACT_AVAILABLE = FALSE
    /\ \E loads \in BOOLEAN :
         kraken_models = load_kraken_models(KRAKEN_AVAILABLE, loads)
    /\ pc = "call_kraken"
    /\ request = [filename |-> <<>>, engine |-> "kraken", language |-> "lat"]
    /\ backend \in KrakenCalls(MaxLines)
    /\ contents = NoContents
    /\ image = TestImage
    /\ engine = "kraken"
    /\ text = <<>>
    /\ confidence = Zero
    /\ response = NoResponse
    /\ events = <<>>

\* text, confidence = self.process_with_kraken(image, language)
CallKraken ==
    /\ pc = "call_kraken"
    /\ LET r == process_with_kraken(image, request.language, backend)
       IN IF r.raised
          THEN /\ pc' = "raised"
               /\ UNCHANGED <<text, confidence>>
          ELSE /\ pc' = "returned"
               /\ text' = r.text
               /\ confidence' = r.confidence
    /\ UNCHANGED <<KRAKEN_AVAILABLE, TESSERACT_AVAILABLE, kraken_models,
                   request, contents, image, engine, backend, response, events>>

NextKraken == CallKraken

SpecKraken == InitKraken /\ [][NextKraken]_vars

----------------------------------------------------------------------------
(* Properties *)

RatEq(a, b) == a.num * b.den = b.num * a.den

NonBlank(t) == \E i \in 1..Len(t) : t[i] \notin Whitespace

RECURSIVE SumOver(_, _)
SumOver(f, I) ==
    IF I = {} THEN 0
    ELSE LET i == CHOOSE x \in I : TRUE IN f[i] + SumOver(f, I \ {i})

Returned == pc = "done" /\ response.status = 200

EngineUsed == response.content.metadata.engine_used

Elongated == 2 * image.width > 5 * image.height

\* C1 as stated: with engine = "auto" the engine reported as engine_used is
\* kraken when width / height > 2.5 and tesseract when width / height <= 2.5.
C1_AutoEngineUsedByRatio ==
    (Returned /\ request.engine = "auto") =>
        EngineUsed = (IF Elongated THEN "kraken" ELSE "tesseract")

\* C1 amended: with engine = "auto" the engine chosen is kraken exactly when
\* width / height > 2.5 (tesseract at 2.5 and below); the engine reported as
\* engine_used is kraken only if kraken is also available, else tesseract.
C1_AutoSelection ==
    (request.engine = "auto" /\ pc \in {"recognize", "done"} /\ image # NoImage) =>
        /\ engine = (IF Elongated THEN "kraken" ELSE "tesseract")
        /\ Returned =>
             EngineUsed = (IF Elongated /\ KRAKEN_AVAILABLE
                           THEN "kraken" ELSE "tesseract")

C1_Witness ==
    /\ Returned /\ request.engine = "auto"
    /\ 2 * image.width = 5 * image.height
    /\ EngineUsed = "tesseract"

\* C2: a request for kraken while kraken is unavailable, on an image that
\* decodes, never ends in an error and never reports kraken: it returns a
\* record whose engine_used is tesseract.
C2_FallbackToPrinted ==
    (request.engine = "kraken" /\ ~KRAKEN_AVAILABLE /\ image # NoImage) =>
        /\ response.status \notin {400, 500}
        /\ backend.called # "kraken"
        /\ pc = "done" => (response.status = 200 /\ EngineUsed = "tesseract")

C2_Witness ==
    /\ Returned /\ request.engine = "kraken" /\ ~KRAKEN_AVAILABLE
    /\ EngineUsed = "tesseract"

\* C3: in every returned record success is true exactly when the text has a
\* character that is not whitespace.
C3_SuccessIffNonBlank ==
    Returned => (response.content.success <=> NonBlank(response.content.text))

C3_Witness ==
    /\ Returned
    /\ response.content.text # <<>>
    /\ ~NonBlank(response.content.text)
    /\ ~response.content.success

\* C4: when the chosen backend raises during recognition, the request still
\* returns a record, with confidence 0 and success false.
C4_BackendFailureRecovered ==
    (pc = "done" /\ backend.raised # "none") =>
        /\ response.status = 200
        /\ RatEq(response.content.confidence, Zero)
        /\ ~response.content.success

\* C5: when kraken is installed, no model is loaded and no kraken call
\* raises, the record has empty text, confidence 0 and success false.
C5_MissingModelUnavailable ==
    (pc = "done" /\ backend.called = "kraken" /\ backend.raised = "none"
       /\ "lat_antiqua" \notin kraken_models) =>
        /\ response.status = 200
        /\ response.content.text = <<>>
        /\ RatEq(response.content.confidence, Zero)
        /\ ~response.content.success

\* C6: once the image has been decoded the request ends with a record,
\* whatever the adapter meets; a 500 only comes from reading or decoding.
C6_AdapterFailureNeverCrashes ==
    (pc = "done" /\ image # NoImage) => response.status = 200

\* C7 as stated: the confidence of the tesseract adapter is the mean of all
\* reported confidences above 0, divided by 100, and 0.7 if there is none.
C7_MeanOfAllPositive ==
    (pc = "returned" /\ TESSERACT_AVAILABLE /\ backend.raised = "none") =>
        LET data == backend.data
            V == {i \in 1..Len(data) : data[i].conf > 0}
            conf == [i \in 1..Len(data) |-> data[i].conf]
        IN IF V = {} THEN RatEq(confidence, Rat(7, 10))
           ELSE RatEq(confidence, Rat(SumOver(conf, V), Cardinality(V) * 100))

\* C7 amended: the confidence of the tesseract adapter is the mean of the
\* confidences above 0 of the rows whose text is not blank, divided by 100
\* ([90, -1, 70, 0] gives 0.80), and 0.7 if there is no such row.
C7_MeanOfPositiveWords ==
    (pc = "returned" /\ TESSERACT_AVAILABLE /\ backend.raised = "none") =>
        LET data == backend.data
            V == {i \in 1..Len(data) : data[i].conf > 0 /\ NonBlank(data[i].text)}
            conf == [i \in 1..Len(data) |-> data[i].conf]
        IN /\ IF V = {} THEN RatEq(confidence, Rat(7, 10))
              ELSE RatEq(confidence, Rat(SumOver(conf, V), Cardinality(V) * 100))
           /\ (conf = <<90, -1, 70, 0>> /\ \A i \in 1..4 : NonBlank(data[i].text))
                 => RatEq(confidence, Rat(80, 100))

C7_Witness ==
    /\ pc = "returned" /\ TESSERACT_AVAILABLE /\ backend.raised = "none"
    /\ Len(backend.data) = 4
    /\ [i \in 1..4 |-> backend.data[i].conf] = <<90, -1, 70, 0>>
    /\ \A i \in 1..4 : NonBlank(backend.data[i].text)
    /\ RatEq(confidence, Rat(4, 5))

\* C8: when the kraken adapter runs to the end, its confidence is exactly
\* 0.85 if no per-unit confidence was reported on any line (zero lines
\* included), and otherwise the mean of all per-unit confidences of all lines.
C8_KrakenConfidence ==
    (pc = "returned" /\ KRAKEN_AVAILABLE /\ "lat_antiqua" \in kraken_models) =>
        LET p == backend.predictions
            R == {i \in 1..Len(p) : p[i].has_confidence}
            total == [i \in 1..Len(p) |-> SumSeq(p[i].confidence)]
            count == [i \in 1..Len(p) |-> Len(p[i].confidence)]
        IN IF SumOver(count, R) = 0
           THEN confidence = Rat(85, 100)
           ELSE RatEq(confidence, Rat(SumOver(total, R), SumOver(count, R) * 100))

C8_Witness ==
    /\ pc = "returned" /\ KRAKEN_AVAILABLE /\ "lat_antiqua" \in kraken_models
    /\ Len(backend.predictions) > 0
    /\ \A i \in 1..Len(backend.predictions) :
          backend.predictions[i].confidence = <<>>
    /\ confidence = Rat(85, 100)

\* C9: a request whose extension is not .jpg, .jpeg, .png, .tiff or .bmp is
\* answered with 400 and nothing is ever read, decoded or recognized for it.
C9_RejectedBeforeRead ==
    (request # NoRequest
       /\ file_ext(request.filename) \notin
            { <<".", "jpg">>, <<".", "jpeg">>, <<".", "png">>, <<".", "tiff">>,
              <<".", "bmp">> }) =>
        /\ events = <<>>
        /\ contents = NoContents /\ image = NoImage /\ backend = NoBackend
        /\ pc \in {"check", "done"}
        /\ pc = "done" => response.status = 400

C9_Witness ==
    /\ pc = "done" /\ response.status = 400
    /\ file_ext(request.filename) = <<".", "pdf">>
    /\ events = <<>>

\* C10: the confidence of every returned record lies between 0 and 1.
C10_ConfidenceInUnitInterval ==
    Returned =>
        /\ response.content.confidence.den > 0
        /\ 0 <= response.content.confidence.num
        /\ response.content.confidence.num <= response.content.confidence.den

C10_Witness ==
    /\ Returned /\ backend.called = "tesseract" /\ backend.raised = "none"
    /\ Len(backend.data) > 0
    /\ response.content.confidence = Rat(90, 100)

====
